---- MODULE Spec2Model ----
(***************************************************************************)
(* llamacpp-python: the generation / interaction control loop.             *)
(*                                                                         *)
(* Two programs of the repository drive the same loop and are modelled     *)
(* over the same session state:                                            *)
(*   prog = "cli"  : llamacpp/cli.py, main(args), which drives a PyLLAMA   *)
(*                   session (the session's methods are not part of the    *)
(*                   Python sources; they follow spec.md 4.1 and 6);       *)
(*   prog = "test" : tests/test_llama_context.py, test_eval, which keeps   *)
(*                   the loop's bookkeeping (n_past, n_remain, n_consumed, *)
(*                   embd) in the open.                                    *)
(* A second specification, SpecFn, calls the tokenizer and the line reader *)
(* on their own (prog = "tok", prog = "lines").                            *)
(* Text is a sequence of symbols, tokens are integers.                     *)
(***************************************************************************)
EXTENDS Integers, Sequences, FiniteSets, TLC

VARIABLES
    prog,           \* "cli" | "test": which program runs
    pc,             \* control position of the program
    args,           \* the argparse namespace handed to main
    embd_inp,       \* every token enqueued so far (the pending-input queue is its unconsumed suffix)
    n_consumed,     \* number of tokens of embd_inp already taken out of the queue
    embd,           \* test_eval: the batch waiting for the next eval call
    n_past,         \* tokens folded into the model's context
    n_remain,       \* remaining sampling budget
    last_n_tokens,  \* the recent-token window (repeat-penalty context)
    fin,            \* the session's is_finished flag
    antiprompt,     \* the session's antiprompt text (<<>> when not set)
    out_tail,       \* tokens sampled since the last antiprompt check
    is_interacting, \* main: local is_interacting
    input_noecho,   \* main: local input_noecho
    is_finished,    \* main: local is_finished (second result of infer_text)
    evals,          \* log of the evaluate calls: <<[pos, toks], ...>>
    sampled,        \* log of the sampled tokens, in sampling order
    windows,        \* log: the window handed to the sampler at the last sample call
    turns,          \* log of the completed user turns: [start, lines, read]
    step,           \* what the last loop step was: "none" | "ingest" | "sample"
    nsteps,         \* number of loop steps (ingest or sample) performed
    since_read,     \* sample steps since the last read of a user line
    markers,        \* number of " [end of text]" markers printed
    err,            \* the exception that ended the run, "none" if none
    exit_code,      \* process outcome: -1 while running, 0 = returned 0, 1 = uncaught exception
    fn_in,          \* the argument of a function called on its own (unit tests, the line reader)
    fn_out,         \* what that call returned
    echoes,         \* log of main's ingest steps: [from, to, echo], the queue positions consumed and the echo flag passed
    output          \* the text printed so far (main: by line 165; test_eval: the output string)

vars == <<prog, pc, args, embd_inp, n_consumed, embd, n_past, n_remain,
          last_n_tokens, fin, antiprompt, out_tail, is_interacting,
          input_noecho, is_finished, evals, sampled, windows, turns, step,
          nsteps, since_read, markers, err, exit_code, fn_in, fn_out,
          echoes, output>>

(***************************************************************************)
(* Bounds of the model.                                                    *)
(***************************************************************************)
MaxText == 3         \* symbols of a text handed to the tokenizer on its own
MaxStream == 3       \* physical lines waiting on standard input when the reader is called on its own
MaxPredict == 2      \* --n_predict ranges over 1..MaxPredict
MaxTurns == 3        \* user turns read in one run
MaxPhys == 2         \* physical lines the user has typed ahead in one turn
MaxBatch == 2        \* --batch_size is 1 or MaxBatch
MaxRepeat == 2       \* --repeat_last_n is 0 or MaxRepeat
SmallCtx == 6        \* the small --ctx_size (the other is the default)

(***************************************************************************)
(* Program constants.                                                      *)
(***************************************************************************)
DefaultCtx == 4096
TestNPredict == 8
TestRepeatLastN == 64
BOS == 1
EOS == 2

MinFirst(a, b) == a

Min(a, b) == IF a <= b THEN a ELSE b

(***************************************************************************)
(* Text and the Model's tokenizer.  Symbols: "a", "b" ordinary characters, *)
(* "\\" the continuation character, " " a space, "x" a malformed byte,     *)
(* "NL2" the text "\n\n", "INS" the text "### Instruction:\n\n", "RSP" the *)
(* text "### Response:\n\n", "Hello" and " World" the two words of the     *)
(* unit tests.  Tokens cover several characters ("ab" is one token, as     *)
(* "Hello" is one token in test_str_to_token).                             *)
(***************************************************************************)
Vocab == [a |-> 3, b |-> 4, ab |-> 5, bs |-> 6, sp |-> 7, nl2 |-> 8, ins |-> 9, rsp |-> 10,
          Hello |-> 10994, World |-> 2787]

Malformed(text) == \E i \in 1..Len(text) : text[i] = "x"

SymTok(c) ==
    CASE c = "a" -> Vocab.a
      [] c = "b" -> Vocab.b
      [] c = "\\" -> Vocab.bs
      [] c = " " -> Vocab.sp
      [] c = "NL2" -> Vocab.nl2
      [] c = "INS" -> Vocab.ins
      [] c = "Hello" -> Vocab.Hello
      [] c = " World" -> Vocab.World
      [] OTHER -> Vocab.rsp

RECURSIVE Pieces(_)
Pieces(text) ==
    IF text = <<>> THEN <<>>
    ELSE IF Len(text) >= 2 /\ text[1] = "a" /\ text[2] = "b"
         THEN <<Vocab.ab>> \o Pieces(SubSeq(text, 3, Len(text)))
         ELSE <<SymTok(text[1])>> \o Pieces(Tail(text))

tokenize(text, add_bos) == (IF add_bos THEN <<BOS>> ELSE <<>>) \o Pieces(text)

token_to_str(t) ==
    CASE t = Vocab.a -> <<"a">>
      [] t = Vocab.b -> <<"b">>
      [] t = Vocab.ab -> <<"a", "b">>
      [] t = Vocab.bs -> <<"\\">>
      [] t = Vocab.sp -> <<" ">>
      [] t = Vocab.nl2 -> <<"NL2">>
      [] t = Vocab.ins -> <<"INS">>
      [] t = Vocab.rsp -> <<"RSP">>
      [] t = Vocab.Hello -> <<"Hello">>
      [] t = Vocab.World -> <<" World">>
      [] OTHER -> <<>>

RECURSIVE DecodeSpaced(_)
DecodeSpaced(toks) ==
    IF toks = <<>> THEN <<>>
    ELSE IF Tail(toks) = <<>> THEN token_to_str(Head(toks))
    ELSE token_to_str(Head(toks)) \o <<" ">> \o DecodeSpaced(Tail(toks))

\* ''.join(model.token_to_str(t) for t in tokens)
RECURSIVE Decode(_)
Decode(toks) == IF toks = <<>> THEN <<>> ELSE token_to_str(Head(toks)) \o Decode(Tail(toks))

Contains(text, sub) ==
    \E i \in 0..(Len(text) - Len(sub)) : SubSeq(text, i + 1, i + Len(sub)) = sub

\* What the Model can sample.
SampleSpace == {EOS, Vocab.a, Vocab.ins}

InstructionText == <<"INS">>
inp_pfx == tokenize(<<"NL2", "INS">>, TRUE)
inp_sfx == tokenize(<<"NL2", "RSP">>, FALSE)


(***************************************************************************)
(* The session (PyLLAMA): pending-input queue, window, budget.             *)
(***************************************************************************)
has_unconsumed_input == n_consumed < Len(embd_inp)

update_input_tokens(q, toks) == q \o toks

update_input(q, text) == q \o tokenize(text, FALSE)

PushWindowKeepOldest(win, toks, n) ==
    LET w == win \o toks IN
    IF Len(w) <= n THEN w ELSE SubSeq(w, 1, n)

\* Append to the recent-token window and keep its last n entries.
PushWindow(win, toks, n) ==
    LET w == win \o toks IN
    IF Len(w) <= n THEN w ELSE SubSeq(w, Len(w) - n + 1, Len(w))

\* Model.evaluate(tokens, startPosition): fails when the context overflows.
EvalFails(pos, toks, ctx_size) == pos + Len(toks) > ctx_size

\* One ingest branch: pop up to batch_size tokens, evaluate them at n_past.
IngestBatch(s, q) ==
    LET batch == SubSeq(q, s.n_consumed + 1, Min(Len(q), s.n_consumed + args.batch_size)) IN
    IF EvalFails(s.n_past, batch, args.ctx_size)
    THEN [s EXCEPT !.err = "EvalError"]
    ELSE [s EXCEPT !.n_consumed = @ + Len(batch),
                   !.n_past = @ + Len(batch),
                   !.win = PushWindow(@, batch, args.repeat_last_n),
                   !.evals = Append(@, [pos |-> s.n_past, toks |-> batch])]

RECURSIVE ingest_all_pending_input(_, _)
ingest_all_pending_input(s, q) ==
    IF s.err # "none" \/ s.n_consumed >= Len(q) THEN s
    ELSE ingest_all_pending_input(IngestBatch(s, q), q)

\* The budget is exhausted when n_remain reaches 0.
BudgetExhausted(n) == n = 0

is_antiprompt_present == antiprompt # <<>> /\ Contains(Decode(out_tail), antiprompt)

reset_remaining_tokens == args.n_predict

(***************************************************************************)
(* process_interactive_input: reads the physical lines the user typed, up  *)
(* to the first one that does not end with a backslash, and passes each to *)
(* update_input.  Result: the queue, the number of lines read, the texts   *)
(* passed to update_input, the error.                                      *)
(***************************************************************************)
EndsWithBS(line) == Len(line) >= 1 /\ line[Len(line)] = "\\"

StripNothing(line) == line

RECURSIVE StripTrailing(_)
StripTrailing(line) ==
    IF Len(line) >= 1 /\ line[Len(line)] = "\\"
    THEN StripTrailing(SubSeq(line, 1, Len(line) - 1))
    ELSE line

StripLast(line) == SubSeq(line, 1, Len(line) - 1)

RECURSIVE ReadLines(_, _, _)
ReadLines(q, typed, i) ==
    LET line == typed[i]
        text == IF EndsWithBS(line) THEN StripLast(line) ELSE line
    IN  IF Malformed(text) THEN [q |-> q, read |-> i, fed |-> <<>>, err |-> "TokenizeError"]
        ELSE IF EndsWithBS(line)
             THEN LET r == ReadLines(update_input(q, text), typed, i + 1)
                  IN  [r EXCEPT !.fed = <<text>> \o @]
             ELSE [q |-> update_input(q, text), read |-> i, fed |-> <<text>>, err |-> "none"]

process_interactive_input(q, typed) == ReadLines(q, typed, 1)

UncaughtRetry(e) == "while"

\* An exception nobody catches ends main: control never comes back to the loop.
Uncaught(e) == "crashed"

(***************************************************************************)
(* Inputs.                                                                 *)
(***************************************************************************)
Prompts == {<<"a", "b">>, <<"x">>}
ReversePrompts == {<<>>, <<"a">>}
RawLines == {<<>>, <<"b">>, <<"x">>, <<"a", "\\">>}
TestPrompt == <<" ", "a", "b">>

RECURSIVE SeqsUpTo(_, _)
SeqsUpTo(S, n) ==
    IF n = 0 THEN {<<>>}
    ELSE LET shorter == SeqsUpTo(S, n - 1) IN
         shorter \cup {Append(s, x) : s \in {t \in shorter : Len(t) = n - 1}, x \in S}

\* What the user has typed when input() is called: the first line that does
\* not end with a backslash is the last one the user typed.
TypedAhead ==
    {ls \in SeqsUpTo(RawLines, MaxPhys) :
        /\ Len(ls) >= 1
        /\ ~EndsWithBS(ls[Len(ls)])
        /\ \A i \in 1..(Len(ls) - 1) : EndsWithBS(ls[i])}

ArgSpace ==
    [instruct : BOOLEAN, interactive : BOOLEAN, reverse_prompt : ReversePrompts,
     has_antiprompt : {FALSE}, antiprompt : {<<>>}, prompt : Prompts,
     n_predict : 1..MaxPredict, batch_size : {1, MaxBatch},
     repeat_last_n : {0, MaxRepeat}, ctx_size : {SmallCtx, DefaultCtx}]

TestArgs ==
    [instruct |-> FALSE, interactive |-> FALSE, reverse_prompt |-> <<>>,
     has_antiprompt |-> FALSE, antiprompt |-> <<>>, prompt |-> TestPrompt,
     n_predict |-> TestNPredict, batch_size |-> 1,
     repeat_last_n |-> TestRepeatLastN, ctx_size |-> DefaultCtx]

Init ==
    /\ prog \in {"cli", "test"}
    /\ IF prog = "cli"
       THEN /\ pc = "start"
            /\ args \in ArgSpace
            /\ embd_inp = <<>>
            /\ n_remain = args.n_predict
       ELSE /\ pc = "tloop"
            /\ args = TestArgs
            /\ embd_inp = tokenize(TestPrompt, TRUE)
            /\ n_remain = TestNPredict
    /\ n_consumed = 0
    /\ embd = <<>>
    /\ n_past = 0
    /\ last_n_tokens = <<>>
    /\ fin = FALSE
    /\ antiprompt = <<>>
    /\ out_tail = <<>>
    /\ is_interacting = FALSE
    /\ input_noecho = FALSE
    /\ is_finished = FALSE
    /\ evals = <<>>
    /\ sampled = <<>>
    /\ windows = <<>>
    /\ turns = <<>>
    /\ step = "none"
    /\ nsteps = 0
    /\ since_read = 0
    /\ markers = 0
    /\ err = "none"
    /\ exit_code = -1
    /\ fn_in = <<>>
    /\ fn_out = <<>>
    /\ echoes = <<>>
    /\ output = <<>>


(***************************************************************************)
(* cli.py, main: one action per stretch of the function.                   *)
(***************************************************************************)
Session == <<embd_inp, n_consumed, n_past, n_remain, last_n_tokens, fin, out_tail>>
Logs == <<evals, sampled, windows, turns, step, nsteps, since_read, markers>>
Fn == <<fn_in, fn_out>>

\* Lines 104-154: prompt, session construction, mode configuration.
main_startup ==
    /\ prog = "cli" /\ pc = "start"
    /\ UNCHANGED Fn
    /\ UNCHANGED <<echoes, output>>
    /\ LET prompt == <<" ">> \o args.prompt
           a1 == IF args.instruct
                 THEN [args EXCEPT !.prompt = prompt, !.interactive = TRUE,
                                   !.has_antiprompt = TRUE, !.antiprompt = InstructionText]
                 ELSE [args EXCEPT !.prompt = prompt]
           a2 == IF a1.has_antiprompt /\ a1.antiprompt # <<>>
                 THEN [a1 EXCEPT !.interactive = TRUE]
                 ELSE a1
       IN  IF Malformed(prompt)
           THEN \* line 129: update_input(args.prompt) raises TokenizeError
                /\ args' = [args EXCEPT !.prompt = prompt]
                /\ embd_inp' = <<BOS>>
                /\ err' = "TokenizeError"
                /\ pc' = Uncaught("TokenizeError")
                /\ exit_code' = 1
                /\ UNCHANGED <<antiprompt, is_interacting>>
           ELSE IF ~a1.has_antiprompt
           THEN \* line 141: the namespace has no attribute antiprompt
                /\ args' = a1
                /\ embd_inp' = update_input(<<BOS>>, prompt)
                /\ err' = "AttributeError"
                /\ pc' = Uncaught("AttributeError")
                /\ exit_code' = 1
                /\ UNCHANGED <<antiprompt, is_interacting>>
           ELSE /\ args' = a2
                /\ embd_inp' = update_input(<<BOS>>, prompt)
                /\ antiprompt' = a1.antiprompt
                /\ is_interacting' = a2.interactive
                /\ pc' = "while"
                /\ UNCHANGED <<err, exit_code>>
    /\ UNCHANGED <<prog, n_consumed, embd, n_past, n_remain, last_n_tokens, fin,
                   out_tail, input_noecho, is_finished, Logs>>

\* Line 156: the loop condition; line 197 when it is false.
main_while ==
    /\ prog = "cli" /\ pc = "while"
    /\ UNCHANGED Fn
    /\ UNCHANGED <<echoes, output>>
    /\ IF ~fin
       THEN pc' = "body" /\ UNCHANGED exit_code
       ELSE pc' = "done" /\ exit_code' = 0
    /\ UNCHANGED <<prog, args, Session, embd, antiprompt, is_interacting,
                   input_noecho, is_finished, Logs, err>>

EchoAlways(noecho) == TRUE

\* Line 158: the echo flag passed to ingest_all_pending_input.
Echo(noecho) == ~noecho

\* Lines 157-158: the ingest step.
main_ingest ==
    /\ prog = "cli" /\ pc = "body"
    /\ UNCHANGED Fn
    /\ has_unconsumed_input
    /\ LET s0 == [n_consumed |-> n_consumed, n_past |-> n_past, win |-> last_n_tokens,
                  evals |-> evals, err |-> "none"]
           s == ingest_all_pending_input(s0, embd_inp)
       IN  /\ n_consumed' = s.n_consumed
           /\ n_past' = s.n_past
           /\ last_n_tokens' = s.win
           /\ evals' = s.evals
           /\ err' = s.err
           /\ IF s.err # "none"
              THEN pc' = Uncaught(s.err) /\ exit_code' = 1
              ELSE pc' = "interact" /\ UNCHANGED exit_code
    /\ step' = "ingest"
    /\ nsteps' = nsteps + 1
    /\ UNCHANGED <<prog, args, embd_inp, embd, n_remain, fin, antiprompt, out_tail,
                   is_interacting, input_noecho, is_finished, sampled, windows,
                   turns, since_read, markers>>
    /\ echoes' = Append(echoes, [from |-> n_consumed, to |-> n_consumed', echo |-> Echo(input_noecho)])
    /\ UNCHANGED output

\* Lines 163-166: the sample step, infer_text.
main_infer_text ==
    /\ prog = "cli" /\ pc = "body"
    /\ UNCHANGED Fn
    /\ ~has_unconsumed_input
    /\ \E id \in SampleSpace :
          /\ windows' = last_n_tokens
          /\ last_n_tokens' = PushWindow(last_n_tokens, <<id>>, args.repeat_last_n)
          /\ embd_inp' = update_input_tokens(embd_inp, <<id>>)
          /\ sampled' = Append(sampled, id)
          /\ out_tail' = Append(out_tail, id)
          /\ n_remain' = n_remain - 1
          /\ fin' = (id = EOS \/ BudgetExhausted(n_remain - 1))
          /\ is_finished' = fin'
    /\ input_noecho' = FALSE
    /\ step' = "sample"
    /\ nsteps' = nsteps + 1
    /\ since_read' = since_read + 1
    /\ pc' = "interact"
    /\ UNCHANGED <<prog, args, n_consumed, embd, n_past, antiprompt, is_interacting,
                   evals, turns, markers, err, exit_code>>
    /\ output' = output \o token_to_str(sampled'[Len(sampled')])
    /\ UNCHANGED echoes

WantsInputFlagOnly(present, interacting) == interacting

\* Line 172, with line 169-171 folded in: does this iteration read user input?
WantsInput(present, interacting) == present \/ interacting

\* Lines 168-183 when no user input is read.
main_no_input ==
    /\ prog = "cli" /\ pc = "interact"
    /\ UNCHANGED Fn
    /\ UNCHANGED <<echoes, output>>
    /\ ~(args.interactive /\ WantsInput(is_antiprompt_present, is_interacting))
    /\ out_tail' = IF args.interactive THEN <<>> ELSE out_tail
    /\ pc' = "post"
    /\ UNCHANGED <<prog, args, embd_inp, n_consumed, embd, n_past, n_remain,
                   last_n_tokens, fin, antiprompt, is_interacting, input_noecho,
                   is_finished, Logs, err, exit_code>>

\* Lines 168-183 when user input is read.
main_read_input ==
    /\ prog = "cli" /\ pc = "interact"
    /\ UNCHANGED Fn
    /\ UNCHANGED <<echoes, output>>
    /\ args.interactive /\ WantsInput(is_antiprompt_present, is_interacting)
    /\ Len(turns) < MaxTurns
    /\ \E typed \in TypedAhead :
          LET q1 == IF args.instruct THEN update_input_tokens(embd_inp, inp_pfx) ELSE embd_inp
              r == process_interactive_input(q1, typed)
              q2 == IF args.instruct THEN update_input_tokens(r.q, inp_sfx) ELSE r.q
              turn == [start |-> Len(embd_inp), stop |-> Len(q2),
                       lines |-> SubSeq(typed, 1, r.read), ok |-> r.err = "none"]
          IN  /\ turns' = Append(turns, turn)
              /\ err' = r.err
              /\ IF r.err # "none"
                 THEN /\ embd_inp' = r.q
                      /\ pc' = Uncaught(r.err)
                      /\ exit_code' = 1
                      /\ is_interacting' = TRUE
                      /\ UNCHANGED input_noecho
                 ELSE /\ embd_inp' = q2
                      /\ pc' = "post"
                      /\ input_noecho' = TRUE
                      /\ is_interacting' = FALSE
                      /\ UNCHANGED exit_code
    /\ out_tail' = <<>>
    /\ since_read' = 0
    /\ UNCHANGED <<prog, args, n_consumed, embd, n_past, n_remain, last_n_tokens,
                   fin, antiprompt, is_finished, evals, sampled, windows, step,
                   nsteps, markers>>

ResetsBudgetNever(interactive, finished) == FALSE

\* Lines 193-195: does the end of the iteration re-arm the session?
ResetsBudget(interactive, finished) == interactive /\ finished

\* Lines 185-195: end of the iteration.
main_finish ==
    /\ prog = "cli" /\ pc = "post"
    /\ UNCHANGED Fn
    /\ UNCHANGED <<echoes, output>>
    /\ IF is_finished /\ ~args.interactive
       THEN \* lines 190-191, then 197
            /\ markers' = markers + 1
            /\ pc' = "done"
            /\ exit_code' = 0
            /\ UNCHANGED <<is_interacting, n_remain, fin>>
       ELSE /\ is_interacting' =
                 (is_interacting \/ (is_finished /\ args.interactive)
                                 \/ ResetsBudget(args.interactive, fin))
            /\ IF ResetsBudget(args.interactive, fin)
               THEN n_remain' = reset_remaining_tokens /\ fin' = FALSE
               ELSE UNCHANGED <<n_remain, fin>>
            /\ pc' = "while"
            /\ UNCHANGED <<markers, exit_code>>
    /\ UNCHANGED <<prog, args, embd_inp, n_consumed, embd, n_past, last_n_tokens,
                   antiprompt, out_tail, input_noecho, is_finished, evals, sampled,
                   windows, turns, step, nsteps, since_read, err>>

\* Ctrl+C while the loop runs.  cli.py installs no SIGINT handler and has
\* no try/except: KeyboardInterrupt is raised between two statements of the
\* loop (a signal that arrives during a session call is delivered when the
\* call returns) and nobody catches it.
main_interrupt ==
    /\ prog = "cli" /\ pc \in {"body", "interact"}
    /\ UNCHANGED Fn
    /\ UNCHANGED <<echoes, output>>
    /\ err' = "KeyboardInterrupt"
    /\ pc' = Uncaught("KeyboardInterrupt")
    /\ exit_code' = 1
    /\ UNCHANGED <<prog, args, Session, embd, antiprompt, is_interacting,
                   input_noecho, is_finished, Logs>>

(***************************************************************************)
(* test_llama_context.py, test_eval: one action per loop iteration.        *)
(***************************************************************************)
\* Lines 32-35: evaluate the waiting batch at n_past, then advance n_past.
EvalPending(log, batch, past) ==
    IF Len(batch) > 0 THEN Append(log, [pos |-> past, toks |-> batch]) ELSE log

AdvancePastByOne(past, batch) == IF Len(batch) > 0 THEN past + 1 ELSE past

AdvancePast(past, batch) == past + Len(batch)

\* Line 49: decrement remaining sampling budget.
IncrementBudget(n) == n + 1

DecrementNever(n) == n

Decrement(n) == n - 1

EmitLatest(out, batch) == Decode(batch)

\* Line 57: output += the joined texts of the tokens in embd.
Emit(out, batch) == out \o Decode(batch)

InputConsumedAlways(inp, consumed) == TRUE

\* Line 37: nothing of embd_inp is left to take.
InputConsumed(inp, consumed) == Len(inp) <= consumed

\* Line 45: the window the test hands to the sampler.
TestWindow == <<>>

\* Lines 31-49: an iteration that samples.
test_eval_sample ==
    /\ prog = "test" /\ pc = "tloop"
    /\ UNCHANGED Fn
    /\ n_remain # 0
    /\ InputConsumed(embd_inp, n_consumed)
    /\ evals' = EvalPending(evals, embd, n_past)
    /\ n_past' = AdvancePast(n_past, embd)
    /\ \E id \in SampleSpace :
          /\ embd' = <<id>>
          /\ sampled' = Append(sampled, id)
    /\ windows' = TestWindow
    /\ n_remain' = Decrement(n_remain)
    /\ step' = "sample"
    /\ nsteps' = nsteps + 1
    /\ since_read' = since_read + 1
    /\ UNCHANGED <<prog, pc, args, embd_inp, n_consumed, last_n_tokens, fin,
                   antiprompt, out_tail, is_interacting, input_noecho, is_finished,
                   turns, markers, err, exit_code>>
    /\ output' = Emit(output, embd')
    /\ UNCHANGED echoes

\* Lines 31-35 and 50-55: an iteration that takes the unconsumed input.
test_eval_consume ==
    /\ prog = "test" /\ pc = "tloop"
    /\ UNCHANGED Fn
    /\ n_remain # 0
    /\ ~InputConsumed(embd_inp, n_consumed)
    /\ evals' = EvalPending(evals, embd, n_past)
    /\ n_past' = AdvancePast(n_past, embd)
    /\ embd' = SubSeq(embd_inp, n_consumed + 1, Len(embd_inp))
    /\ n_consumed' = Len(embd_inp)
    /\ step' = "ingest"
    /\ nsteps' = nsteps + 1
    /\ UNCHANGED <<prog, pc, args, embd_inp, n_remain, last_n_tokens, fin,
                   antiprompt, out_tail, is_interacting, input_noecho, is_finished,
                   sampled, windows, turns, since_read, markers, err, exit_code>>
    /\ output' = Emit(output, embd')
    /\ UNCHANGED echoes

\* Line 31 when n_remain is 0: the loop ends.
test_eval_done ==
    /\ prog = "test" /\ pc = "tloop"
    /\ UNCHANGED Fn
    /\ UNCHANGED <<echoes, output>>
    /\ n_remain = 0
    /\ pc' = "tdone"
    /\ exit_code' = 0
    /\ UNCHANGED <<prog, args, Session, embd, antiprompt, is_interacting,
                   input_noecho, is_finished, Logs, err>>

Next ==
    \/ main_startup
    \/ main_while
    \/ main_ingest
    \/ main_infer_text
    \/ main_no_input
    \/ main_read_input
    \/ main_finish
    \/ main_interrupt
    \/ test_eval_sample
    \/ test_eval_consume
    \/ test_eval_done

Spec == Init /\ [][Next]_vars

(***************************************************************************)
(* The functions called on their own: the tokenizer as the unit tests call *)
(* it (prog = "tok"), and process_interactive_input on a stream of         *)
(* physical lines (prog = "lines").                                        *)
(***************************************************************************)
HelloWorld == <<"Hello", " World">>

\* Texts over the vocabulary.
TextSymbols == {"a", "b", " ", "\\", "Hello", " World"}
Texts == SeqsUpTo(TextSymbols, MaxText)

\* What standard input holds when the reader is called: lines with no, one
\* or two trailing backslashes, and at least one line without.
StreamLines == {<<>>, <<"b">>, <<"a", "\\">>, <<"\\">>, <<"\\", "\\">>}
Streams ==
    {ls \in SeqsUpTo(StreamLines, MaxStream) : \E i \in 1..Len(ls) : ~EndsWithBS(ls[i])}

InitFn ==
    /\ prog \in {"tok", "lines"}
    /\ pc = "call"
    /\ fn_in \in (IF prog = "tok" THEN Texts ELSE Streams)
    /\ fn_out = [tokens |-> <<>>, text |-> <<>>]
    /\ args = TestArgs
    /\ embd_inp = <<>>
    /\ n_remain = 0
    /\ n_consumed = 0
    /\ embd = <<>>
    /\ n_past = 0
    /\ last_n_tokens = <<>>
    /\ fin = FALSE
    /\ antiprompt = <<>>
    /\ out_tail = <<>>
    /\ is_interacting = FALSE
    /\ input_noecho = FALSE
    /\ is_finished = FALSE
    /\ evals = <<>>
    /\ sampled = <<>>
    /\ windows = <<>>
    /\ turns = <<>>
    /\ step = "none"
    /\ nsteps = 0
    /\ since_read = 0
    /\ markers = 0
    /\ err = "none"
    /\ exit_code = -1
    /\ echoes = <<>>
    /\ output = <<>>

Loop == <<args, Session, embd, antiprompt, is_interacting, input_noecho, is_finished,
          Logs, err, exit_code, echoes, output>>

\* test_str_to_token, line 15: tokens = model.str_to_token(text, True).
test_str_to_token ==
    /\ prog = "tok" /\ pc = "call"
    /\ fn_out' = [fn_out EXCEPT !.tokens = tokenize(fn_in, TRUE)]
    /\ pc' = "join"
    /\ UNCHANGED <<prog, fn_in, Loop>>

\* test_token_to_str, line 21: the texts of the tokens, joined.
test_token_to_str ==
    /\ prog = "tok" /\ pc = "join"
    /\ fn_out' = [fn_out EXCEPT !.text = Decode(fn_out.tokens)]
    /\ pc' = "fdone"
    /\ UNCHANGED <<prog, fn_in, Loop>>

\* Lines 86-98: process_interactive_input(model) on an empty queue.
call_process_interactive_input ==
    /\ prog = "lines" /\ pc = "call"
    /\ fn_out' = process_interactive_input(<<>>, fn_in)
    /\ pc' = "fdone"
    /\ UNCHANGED <<prog, fn_in, Loop>>

NextFn ==
    \/ test_str_to_token
    \/ test_token_to_str
    \/ call_process_interactive_input

SpecFn == InitFn /\ [][NextFn]_vars


(***************************************************************************)
(* Vocabulary of the properties.                                           *)
(***************************************************************************)
RECURSIVE Flat(_)
Flat(log) == IF log = <<>> THEN <<>> ELSE Head(log).toks \o Flat(Tail(log))

IsPrefix(p, q) == Len(p) <= Len(q) /\ SubSeq(q, 1, Len(p)) = p

IsSuffix(p, q) == Len(p) <= Len(q) /\ SubSeq(q, Len(q) - Len(p) + 1, Len(q)) = p

\* Every token enqueued or sampled so far, in the order it was produced.
Produced == IF prog = "test" THEN embd_inp \o sampled ELSE embd_inp

\* The run was started with none of --interactive, --instruct, --reverse-prompt;
\* test_eval is the Batch loop written out.
BatchFlags == ~args.interactive /\ ~args.instruct /\ args.reverse_prompt = <<>>
BatchMode == prog = "test" \/ BatchFlags

ModelErrors == {"EvalError", "TokenizeError"}

(***************************************************************************)
(* C1.                                                                     *)
(***************************************************************************)
DrainState ==
    /\ n_past = Len(Flat(evals))
    /\ IsPrefix(Flat(evals), Produced)
    /\ \A i \in 1..Len(evals) : evals[i].pos = Len(Flat(SubSeq(evals, 1, i - 1)))

\* C1: queue drain invariant.  At every point n_past is the number of tokens
\* passed to evaluate so far; the evaluated tokens are a prefix of the tokens
\* enqueued or sampled, in that order (none twice, none skipped); each evaluate
\* call starts at the position where the previous one ended; and no step
\* decreases n_past.
C1_QueueDrain == []DrainState /\ [][n_past' >= n_past]_vars

\* C1 witness: test_eval has fed two sampled tokens back through eval after
\* the prompt.
C1_Witness ==
    /\ prog = "test"
    /\ Len(evals) >= 3
    /\ n_past = Len(embd_inp) + 2

InteractStep == pc = "interact" /\ pc' # "interact" /\ err' # "KeyboardInterrupt"
ReadsInput == Len(turns') = Len(turns) + 1

C4_ModelAnswersEveryTurn ==
    [][(ReadsInput /\ Len(turns) >= 1) => since_read >= 1]_vars

(***************************************************************************)
(* C5.                                                                     *)
(***************************************************************************)
\* C5: in Interactive/Instruct mode the loop condition is never observed
\* false (the budget is reset before line 156 is evaluated again), main never
\* reaches its return and never ends with outcome 0.
C5_InteractiveNeverDone ==
    (prog = "cli" /\ args.interactive) =>
        /\ pc = "while" => ~fin
        /\ pc # "done"
        /\ exit_code # 0

\* C5 witness: back at the loop condition after end-of-text was sampled, the
\* budget reset to n_predict.
C5_Witness ==
    /\ prog = "cli" /\ args.interactive
    /\ pc = "while"
    /\ is_finished
    /\ sampled # <<>> /\ sampled[Len(sampled)] = EOS
    /\ n_remain = args.n_predict

(***************************************************************************)
(* C6.                                                                     *)
(***************************************************************************)
\* C6: a Batch-mode run in which the Model raises no error ends by a normal
\* finish that has printed the " [end of text]" marker exactly once, without
\* having read user input; no Batch run prints the marker twice.
C6_BatchMarkerOnce ==
    (prog = "cli" /\ BatchFlags) =>
        /\ markers <= 1
        /\ turns = <<>>
        /\ (exit_code # -1 /\ err \notin ModelErrors) => (pc = "done" /\ markers = 1)

(***************************************************************************)
(* C7.                                                                     *)
(***************************************************************************)
Unmarked(line) ==
    IF Len(line) >= 1 /\ line[Len(line)] = "\\" THEN SubSeq(line, 1, Len(line) - 1) ELSE line

RECURSIVE LineTokens(_)
LineTokens(lines) ==
    IF lines = <<>> THEN <<>>
    ELSE tokenize(Unmarked(Head(lines)), FALSE) \o LineTokens(Tail(lines))

RECURSIVE LogicalLine(_)
LogicalLine(lines) ==
    IF lines = <<>> THEN <<>> ELSE Unmarked(Head(lines)) \o LogicalLine(Tail(lines))

\* The frame of a turn, its user part tokenized physical line by physical line.
FramePerLine(t) == inp_pfx \o LineTokens(t.lines) \o inp_sfx

\* The frame of a turn, its user part the tokens of the logical line.
FrameLogical(t) == inp_pfx \o tokenize(LogicalLine(t.lines), FALSE) \o inp_sfx

RECURSIVE SumFrames(_)
SumFrames(ts) == IF ts = <<>> THEN 0 ELSE Len(FramePerLine(Head(ts))) + SumFrames(Tail(ts))

\* C7 as stated: in Instruct mode the tokens enqueued for every user turn are
\* the prefix tokens, the tokens of the user's logical line, the suffix
\* tokens, contiguous and in that order.
C7_FrameLogicalLine ==
    args.instruct =>
        \A i \in 1..Len(turns) :
            turns[i].ok =>
                SubSeq(embd_inp, turns[i].start + 1,
                       turns[i].start + Len(FrameLogical(turns[i]))) = FrameLogical(turns[i])

\* C7 amended: in Instruct mode the tokens enqueued for every user turn are
\* the prefix tokens, then the tokens of each physical line of the turn
\* (continuation backslash removed), line by line in order, then the suffix
\* tokens, contiguous in the queue; the turns do not overlap, and the queue
\* holds nothing but the prompt, the sampled tokens and these frames.
C7_FramePerLine ==
    args.instruct =>
        /\ \A i \in 1..Len(turns) :
              turns[i].ok =>
                 LET frame == FramePerLine(turns[i]) IN
                 /\ SubSeq(embd_inp, turns[i].start + 1, turns[i].start + Len(frame)) = frame
                 /\ i < Len(turns) => turns[i + 1].start >= turns[i].start + Len(frame)
        /\ (pc \notin {"start", "crashed"}) =>
              Len(embd_inp) = Len(tokenize(args.prompt, TRUE)) + Len(sampled) + SumFrames(turns)

\* C7 witness: two turns have been enqueued, the first typed on two physical
\* lines.
C7_Witness ==
    /\ args.instruct
    /\ Len(turns) >= 2
    /\ turns[1].ok /\ turns[2].ok
    /\ Len(turns[1].lines) = 2

(***************************************************************************)
(* C8.                                                                     *)
(***************************************************************************)
\* The tokens a step of main appends to the window: the sampled token, or
\* the tokens it evaluated.
Pushed ==
    IF Len(sampled') > Len(sampled)
    THEN <<sampled'[Len(sampled')]>>
    ELSE Flat(SubSeq(evals', Len(evals) + 1, Len(evals')))

\* C8: the recent-token window, and the window handed to the sampler, never
\* hold more than repeat_last_n tokens, and a step that appends tokens keeps
\* the newest ones: the window after the step is the tail of the old window
\* followed by the appended tokens.
C8_WindowBound ==
    /\ [](Len(last_n_tokens) <= args.repeat_last_n /\ Len(windows) <= args.repeat_last_n)
    /\ [][(prog = "cli" /\ nsteps' = nsteps + 1) =>
             /\ IsSuffix(last_n_tokens', last_n_tokens \o Pushed)
             /\ Len(last_n_tokens') = Min(args.repeat_last_n, Len(last_n_tokens \o Pushed))]_vars

\* C8 witness: the sampler was handed a full window after tokens had been
\* evicted from it.
C8_Witness ==
    /\ prog = "cli"
    /\ args.repeat_last_n >= 2
    /\ Len(windows) = args.repeat_last_n
    /\ n_past > args.repeat_last_n

(***************************************************************************)
(* C9.                                                                     *)
(***************************************************************************)
\* C9: once a Model call has raised EvalError or TokenizeError the run has
\* ended with a non-zero outcome, and no ingest step, sample step, evaluate
\* call or read of user input happens afterwards.
C9_ErrorStops ==
    /\ [](err \in ModelErrors => (pc = "crashed" /\ exit_code \notin {-1, 0}))
    /\ [][(err \in ModelErrors) => UNCHANGED <<nsteps, turns, evals, sampled>>]_vars

\* C9 witness: evaluate raised EvalError in an ingest step after a user turn.
C9_Witness ==
    /\ err = "EvalError"
    /\ Len(turns) >= 1
    /\ n_past > 0

(***************************************************************************)
(* C10.                                                                    *)
(***************************************************************************)
\* C10: a Batch-mode run in which the Model raises no error gets through
\* startup and, when it has ended, has returned 0.
C10_BatchReturnsZero ==
    (prog = "cli" /\ BatchFlags /\ err \notin ModelErrors) =>
        /\ pc # "crashed"
        /\ exit_code \in {-1, 0}

(***************************************************************************)
(* C11.                                                                    *)
(***************************************************************************)
\* C11: once startup is over without a Model error, a run started with
\* --instruct has the fixed instruction text as the session's antiprompt and
\* is interactive, and a run started with a non-empty --reverse-prompt S and
\* without --instruct has S as the session's antiprompt and is interactive.
C11_ReversePromptSetsAntiprompt ==
    (prog = "cli" /\ pc # "start" /\ err \notin ModelErrors) =>
        /\ args.instruct => (antiprompt = InstructionText /\ args.interactive)
        /\ (~args.instruct /\ args.reverse_prompt # <<>>) =>
              (antiprompt = args.reverse_prompt /\ args.interactive)

(***************************************************************************)
(* C12.                                                                    *)
(***************************************************************************)
\* C12: in interactive mode a user interrupt that arrives while the loop is
\* running does not end the run: the controller is then awaiting input
\* (is_interacting is set, nothing is generated before the user is asked),
\* and the queue and the counters are consistent.
C12_InterruptHandsControl ==
    (prog = "cli" /\ args.interactive /\ err = "KeyboardInterrupt") =>
        /\ pc # "crashed"
        /\ exit_code = -1
        /\ is_interacting
        /\ DrainState

SampleStep == Len(sampled') = Len(sampled) + 1
TakesInput == n_consumed' > n_consumed

\* n_past when the sampler is called: test_eval evaluates the waiting batch
\* at the top of the iteration that samples, main in an iteration of its own.
PastAtSample == IF prog = "test" THEN n_past' ELSE n_past

\* C14: an iteration either takes tokens out of the pending-input queue or
\* samples, never both.  The sampler is called only when the queue is empty
\* and every token enqueued or sampled so far has been evaluated (n_past is
\* the number of tokens produced so far).  Nothing is evaluated that has not
\* been taken out of the queue or sampled before.
C14_SampleOnlyWhenDrained ==
    /\ [][/\ SampleStep =>
               /\ ~TakesInput
               /\ n_consumed = Len(embd_inp)
               /\ PastAtSample = Len(Produced)
               /\ prog = "cli" => UNCHANGED evals
          /\ TakesInput => ~SampleStep]_vars
    /\ [](n_past <= (IF prog = "test" THEN n_consumed + Len(sampled) ELSE n_consumed))

\* C14 witness: main has sampled again after a user turn was ingested, and
\* the token just sampled waits in the queue.
C14_Witness ==
    /\ prog = "cli"
    /\ step = "sample"
    /\ Len(turns) >= 1
    /\ Len(sampled) >= 2
    /\ n_past + 1 = Len(embd_inp)
    /\ n_consumed = n_past

(***************************************************************************)
(* C15.                                                                    *)
(***************************************************************************)
\* The first physical line of a stream that does not end with a backslash.
FirstPlain(stream) ==
    CHOOSE i \in 1..Len(stream) :
        ~EndsWithBS(stream[i]) /\ \A j \in 1..(i - 1) : EndsWithBS(stream[j])

RECURSIVE Concat(_)
Concat(texts) == IF texts = <<>> THEN <<>> ELSE Head(texts) \o Concat(Tail(texts))

\* C15: line continuation.  process_interactive_input reads the physical
\* lines up to and including the first one that does not end with a
\* backslash and no line after it; every line read before that one is fed
\* with exactly one trailing backslash removed, the last one unchanged, in
\* the order read; the text the session receives is their concatenation.
C15_LineContinuation ==
    (prog = "lines" /\ pc = "fdone") =>
        LET k == FirstPlain(fn_in) IN
        /\ fn_out.err = "none"
        /\ fn_out.read = k
        /\ Len(fn_out.fed) = k
        /\ \A i \in 1..(k - 1) : fn_out.fed[i] \o <<"\\">> = fn_in[i]
        /\ fn_out.fed[k] = fn_in[k]
        /\ Decode(fn_out.q) = Concat(fn_out.fed)

\* C15 witness: the first line ended with two backslashes, the second line
\* ended the turn, and a third line was left unread.
C15_Witness ==
    /\ prog = "lines" /\ pc = "fdone"
    /\ Len(fn_in) = 3
    /\ fn_in[1] = <<"\\", "\\">>
    /\ fn_out.read = 2
    /\ fn_out.fed = <<<<"\\">>, fn_in[2]>>

(***************************************************************************)
(* C16.                                                                    *)
(***************************************************************************)
PromptLen == Len(tokenize(args.prompt, TRUE))

\* The ingest step e consumed a token that user turn t put into the queue
\* (user text, instruct prefix or suffix).
ConsumesTurn(e, t) == e.from < t.stop /\ t.start < e.to

\* C16: echo suppression.  Every ingest step that consumes tokens enqueued
\* during a user turn runs with echo off, every ingest step that consumes
\* tokens of the initial prompt runs with echo on, and a suppressed echo is
\* switched back on only by a sample step.
C16_EchoSuppression ==
    /\ [](prog = "cli" =>
            \A i \in 1..Len(echoes) :
                /\ (\E j \in 1..Len(turns) : ConsumesTurn(echoes[i], turns[j])) => ~echoes[i].echo
                /\ (echoes[i].from < PromptLen) => echoes[i].echo)
    /\ [][(input_noecho /\ ~input_noecho') => SampleStep]_vars

\* C16 witness: the prompt was ingested with echo on, a user turn with echo
\* off, and after the next sample step echo was on again.
C16_Witness ==
    /\ prog = "cli"
    /\ Len(echoes) >= 3
    /\ echoes[1].echo
    /\ ~echoes[2].echo /\ ConsumesTurn(echoes[2], turns[1])
    /\ echoes[3].echo
    /\ ~input_noecho

(***************************************************************************)
(* C17.                                                                    *)
(***************************************************************************)
\* C17: the pending-input queue is drained in FIFO order and in batches of
\* at most batch_size tokens: the evaluate calls taken together have received
\* a prefix of the tokens produced, in the order they were enqueued, and no
\* evaluate call of a session run with --batch_size has received more than
\* batch_size tokens (or none at all).
C17_FifoBatches ==
    /\ LET evaluated == Flat(evals) IN
       /\ IsPrefix(evaluated, Produced)
       /\ Len(evaluated) <= n_consumed + (IF prog = "test" THEN Len(sampled) ELSE 0)
    /\ prog = "cli" =>
          \A i \in 1..Len(evals) :
              Len(evals[i].toks) >= 1 /\ Len(evals[i].toks) <= args.batch_size

\* C17 witness: with batch_size MaxBatch, a user turn has been drained in several
\* evaluate calls, full and partial.
C17_Witness ==
    /\ prog = "cli"
    /\ args.batch_size = MaxBatch
    /\ Len(turns) >= 1
    /\ n_past > turns[1].start
    /\ \E i \in 1..Len(evals) : Len(evals[i].toks) = MaxBatch /\ evals[i].pos >= turns[1].start
    /\ \E i \in 1..Len(evals) : Len(evals[i].toks) = 1

C19_BatchContextBound ==
    BatchMode =>
        LET most == PromptLen + args.n_predict IN
        /\ n_past <= most
        /\ \A i \in 1..Len(evals) : evals[i].pos + Len(evals[i].toks) <= most
        /\ (most <= args.ctx_size) =>
              /\ err # "EvalError"
              /\ n_past <= args.ctx_size
              /\ \A i \in 1..Len(evals) :
                    ~EvalFails(evals[i].pos, evals[i].toks, args.ctx_size)

\* C19 witness: the Batch loop of test_eval has ended; its last evaluate call
\* ended one token short of the prompt length plus n_predict.
C19_Witness ==
    /\ prog = "test"
    /\ pc = "tdone"
    /\ evals # <<>>
    /\ evals[Len(evals)].pos + Len(evals[Len(evals)].toks) = PromptLen + args.n_predict - 1
    /\ n_past = PromptLen + args.n_predict - 1

====
